---------------------------- MODULE Spec2Model ----------------------------
(***************************************************************************)
(* Orderbook data layer of poly-arb-test (src/src/orderbook.rs) and its    *)
(* consumer loop (src/src/main.rs).                                        *)
(*                                                                         *)
(* Rust Strings are sequences of one-character strings, so that            *)
(* str::parse::<f64>() and format!("{:.2}", ..) are computed character by  *)
(* character.  Numbers are fixed point, in thousandths.  Option<T> is a    *)
(* sequence of length 0 (None) or 1 (Some).                                *)
(***************************************************************************)
EXTENDS Integers, Sequences, FiniteSets, TLC

(***************************************************************************)
(* Bounds of the model.                                                    *)
(***************************************************************************)
\* frames the ingestion loop reads in one run
MaxFrames == 2
\* distinct wall-clock readings chrono::Utc::now() can return
MaxClock == 2
\* slots of the broadcast channel (64 in spawn, orderbook.rs 64), scaled to the
\* number of frames of a run
Capacity == 1

(***************************************************************************)
(* Strings.                                                                *)
(***************************************************************************)
Digits == <<"0", "1", "2", "3", "4", "5", "6", "7", "8", "9">>

IsDigit(c) == \E i \in 1..10 : Digits[i] = c

DigitVal(c) == (CHOOSE i \in 1..10 : Digits[i] = c) - 1

None == <<>>

Some(x) == <<x>>

IsSome(o) == Len(o) = 1

Unwrap(o) == o[1]

Pow10(n) == IF n = 0 THEN 1 ELSE IF n = 1 THEN 10 ELSE IF n = 2 THEN 100 ELSE 1000

\* the decimal digits of a natural number
RECURSIVE NatToStr(_)
NatToStr(n) == IF n < 10 THEN <<Digits[n + 1]>>
               ELSE NatToStr(n \div 10) \o <<Digits[(n % 10) + 1]>>

\* the value of a string of digits (0 for the empty string)
DigitsVal(s) ==
    LET val[i \in 0..Len(s)] == IF i = 0 THEN 0 ELSE 10 * val[i - 1] + DigitVal(s[i])
    IN  val[Len(s)]

AllDigits(s) == \A i \in 1..Len(s) : IsDigit(s[i])

(***************************************************************************)
(* price.parse::<f64>(): [sign] (Digit+ | Digit+ "." Digit* | Digit* "."   *)
(* Digit+), nothing before or after it.  The result is None (Err) or       *)
(* Some(v), v the value in thousandths.  Exact for strings of digits, ".", *)
(* "+", "-" and letters other than e, E, i, n with at most three fraction  *)
(* digits (no exponent, inf or nan spellings), which is what Frames holds. *)
(***************************************************************************)
ParseUnsigned(s) ==
    LET dots == {i \in 1..Len(s) : s[i] = "."}
    IN  IF dots = {}
        THEN IF s # <<>> /\ AllDigits(s) THEN Some(1000 * DigitsVal(s)) ELSE None
        ELSE LET d  == CHOOSE i \in dots : \A j \in dots : i <= j
                 ip == SubSeq(s, 1, d - 1)
                 fp == SubSeq(s, d + 1, Len(s))
             IN  IF /\ AllDigits(ip)
                    /\ AllDigits(fp)
                    /\ Len(ip) + Len(fp) > 0
                    /\ Len(fp) <= 3
                 THEN Some(1000 * DigitsVal(ip) + DigitsVal(fp) * Pow10(3 - Len(fp)))
                 ELSE None

ParseF64(s) ==
    IF s = <<>> THEN None
    ELSE IF s[1] = "-"
         THEN LET r == ParseUnsigned(Tail(s))
              IN  IF IsSome(r) THEN Some(0 - Unwrap(r)) ELSE None
         ELSE IF s[1] = "+" THEN ParseUnsigned(Tail(s))
         ELSE ParseUnsigned(s)

(***************************************************************************)
(* format!("{:.2}", x) of x = v / 1000: the nearest hundredth, a "-" for   *)
(* every negative x (also one that rounds to zero), at least one integer   *)
(* digit, exactly two fraction digits.  A v that lies half way between two *)
(* hundredths is rounded by the binary value of the f64, which thousandths *)
(* do not carry; Frames holds no such price.                               *)
(***************************************************************************)
\* faulty variant: the hundredths are cut off instead of rounded
RoundHundredthsTruncated(a) == a \div 10

RoundHundredths(a) == (a + 5) \div 10

Format2(v) ==
    LET a == IF v < 0 THEN 0 - v ELSE v
        h == RoundHundredths(a)
        f == h % 100
    IN  (IF v < 0 THEN <<"-">> ELSE <<>>)
        \o NatToStr(h \div 100) \o <<".">>
        \o <<Digits[(f \div 10) + 1], Digits[(f % 10) + 1]>>

(***************************************************************************)
(* Configuration and state (orderbook.rs 14-35).                           *)
(***************************************************************************)
TOKEN_UP == <<"U", "P">>

TOKEN_DOWN == <<"D", "N">>

TOKEN_OTHER == <<"Z", "Z">>

config == [token_up |-> TOKEN_UP, token_down |-> TOKEN_DOWN]

\* OrderbookState::default()
DefaultState ==
    [up_bid_price   |-> <<>>, up_bid_size   |-> <<>>,
     up_ask_price   |-> <<>>, up_ask_size   |-> <<>>,
     down_bid_price |-> <<>>, down_bid_size |-> <<>>,
     down_ask_price |-> <<>>, down_ask_size |-> <<>>,
     last_update_ms |-> 0]

\* the price and size strings of the frames
S040 == <<"0", ".", "4", "0">>

S030 == <<"0", ".", "3", "0">>

S0404 == <<"0", ".", "4", "0", "4">>

S045 == <<"0", ".", "4", "5">>

S055 == <<"0", ".", "5", "5">>

SX == <<"x">>

S100 == <<"1", "0", "0">>

S7 == <<"7">>

\* the price strings of the frames
Prices == {S040, S030, S0404, S045, S055, SX}

(***************************************************************************)
(* serde_json::Value, as far as process_message looks into it.  A document *)
(* is an object carrying the five keys the code asks for, each absent      *)
(* (None) or present, or a value that is no object.  A value read with     *)
(* as_str() is a string or something else (a number, null, ..).            *)
(***************************************************************************)
JStr(s) == [t |-> "str", s |-> s]

\* a value that is no string: a number
JNum == [t |-> "num", s |-> <<>>]

\* Value::as_str
as_str(v) == IF v.t = "str" THEN Some(v.s) ELSE None

\* one price level {"price": .., "size": ..}; a level that is no object has t = "other"
JLevel(price, size) == [t |-> "obj", price |-> price, size |-> size]

\* Value::get("price"), Value::get("size") on a level
GetLevel(v, key) ==
    IF v.t # "obj" THEN None ELSE IF key = "price" THEN v.price ELSE v.size

JArr(a) == [t |-> "arr", a |-> a]

\* Value::as_array
as_array(v) == IF v.t = "arr" THEN Some(v.a) ELSE None

JDoc(asset_id, assetId, token_id, bids, asks) ==
    [t |-> "obj", asset_id |-> asset_id, assetId |-> assetId,
     token_id |-> token_id, bids |-> bids, asks |-> asks]

\* Option::or_else
OrElse(a, b) == IF IsSome(a) THEN a ELSE b

\* Option::and_then(as_str)
AndThenStr(o) == IF IsSome(o) THEN as_str(Unwrap(o)) ELSE None

\* orderbook.rs 159-163
AssetId(data) ==
    IF data.t # "obj" THEN None
    ELSE AndThenStr(OrElse(OrElse(data.asset_id, data.assetId), data.token_id))

\* orderbook.rs 172-181: get(..).and_then(as_array).cloned().unwrap_or_default()
Levels(field) ==
    LET arr == IF IsSome(field) THEN as_array(Unwrap(field)) ELSE None
    IN  IF IsSome(arr) THEN Unwrap(arr) ELSE <<>>

\* faulty variant: the first level of a side is taken instead of the last
BestFirst(levels) ==
    IF levels = <<>> THEN None
    ELSE LET v     == levels[1]
             price == AndThenStr(GetLevel(v, "price"))
             size  == AndThenStr(GetLevel(v, "size"))
         IN  IF IsSome(price) /\ IsSome(size)
             THEN Some([price |-> Unwrap(price), size |-> Unwrap(size)])
             ELSE None

\* orderbook.rs 184-193: levels.last().and_then(|v| Some((price, size)))
Best(levels) ==
    IF levels = <<>> THEN None
    ELSE LET v     == levels[Len(levels)]
             price == AndThenStr(GetLevel(v, "price"))
             size  == AndThenStr(GetLevel(v, "size"))
         IN  IF IsSome(price) /\ IsSome(size)
             THEN Some([price |-> Unwrap(price), size |-> Unwrap(size)])
             ELSE None

\* faulty variant: the check of the asset id against the two tokens (orderbook.rs
\* 167-169) is missing, so that an unrelated frame is handled as a Down frame
InterpretNoFilter(txt) ==
    LET none == [ret |-> "None", is_up |-> FALSE, best_bid |-> None, best_ask |-> None]
    IN  IF ~IsSome(txt.json) THEN none
        ELSE LET data     == Unwrap(txt.json)
                 asset_id == AssetId(data)
             IN  IF ~IsSome(asset_id) THEN none
                 ELSE LET is_up    == Unwrap(asset_id) = config.token_up
                          best_bid == Best(Levels(data.bids))
                          best_ask == Best(Levels(data.asks))
                      IN  IF ~IsSome(best_bid) /\ ~IsSome(best_ask)
                          THEN [none EXCEPT !.ret = "SomeFalse"]
                          ELSE [ret |-> "Update", is_up |-> is_up,
                                best_bid |-> best_bid, best_ask |-> best_ask]

\* faulty variant: the return for a frame without a best bid and a best ask
\* (orderbook.rs 196-198) is missing
InterpretNoEmptyCheck(txt) ==
    LET none == [ret |-> "None", is_up |-> FALSE, best_bid |-> None, best_ask |-> None]
    IN  IF ~IsSome(txt.json) THEN none
        ELSE LET data     == Unwrap(txt.json)
                 asset_id == AssetId(data)
             IN  IF ~IsSome(asset_id) THEN none
                 ELSE LET is_up    == Unwrap(asset_id) = config.token_up
                          is_down  == Unwrap(asset_id) = config.token_down
                          best_bid == Best(Levels(data.bids))
                          best_ask == Best(Levels(data.asks))
                      IN  IF ~is_up /\ ~is_down
                          THEN [none EXCEPT !.ret = "SomeFalse"]
                          ELSE [ret |-> "Update", is_up |-> is_up,
                                best_bid |-> best_bid, best_ask |-> best_ask]

(***************************************************************************)
(* process_message up to the write (orderbook.rs 156-198).  A text frame   *)
(* is its parse: txt.json is None when serde_json::from_str fails.  The    *)
(* result is the early return, "None" or "SomeFalse", or "Update" with the *)
(* extracted sides.                                                        *)
(***************************************************************************)
Interpret(txt) ==
    LET none == [ret |-> "None", is_up |-> FALSE, best_bid |-> None, best_ask |-> None]
    IN  IF ~IsSome(txt.json) THEN none
        ELSE LET data     == Unwrap(txt.json)
                 asset_id == AssetId(data)
             IN  IF ~IsSome(asset_id) THEN none
                 ELSE LET is_up    == Unwrap(asset_id) = config.token_up
                          is_down  == Unwrap(asset_id) = config.token_down
                          best_bid == Best(Levels(data.bids))
                          best_ask == Best(Levels(data.asks))
                      IN  IF ~is_up /\ ~is_down
                          THEN [none EXCEPT !.ret = "SomeFalse"]
                          ELSE IF ~IsSome(best_bid) /\ ~IsSome(best_ask)
                          THEN [none EXCEPT !.ret = "SomeFalse"]
                          ELSE [ret |-> "Update", is_up |-> is_up,
                                best_bid |-> best_bid, best_ask |-> best_ask]

\* 1.0 - p, formatted (orderbook.rs 213, 222, 233, 242)
Complement(p) == Format2(1000 - p)

\* faulty variant: a price that is no number counts as 0.0
ParseComplementOrZero(price) ==
    LET p == ParseF64(price)
    IN  IF IsSome(p) THEN Some(Complement(Unwrap(p))) ELSE Some(Complement(0))

\* if let Ok(p) = price.parse::<f64>() { format!("{:.2}", 1.0 - p) }: the
\* derived price, None when the price is no number
ParseComplement(price) ==
    LET p == ParseF64(price)
    IN  IF IsSome(p) THEN Some(Complement(Unwrap(p))) ELSE None

\* ParseComplement of the prices the feed delivers, computed once
ComplementTable == {<<price, ParseComplement(price)>> : price \in Prices}

ComplementOf(price) ==
    IF price \in Prices
    THEN (CHOOSE t \in ComplementTable : t[1] = price)[2]
    ELSE ParseComplement(price)

\* faulty variant: the size of a bid is added to the stored size instead of
\* taking its place
ApplyBidAccumulate(s, u) ==
    IF ~IsSome(u.best_bid) THEN s
    ELSE LET price == Unwrap(u.best_bid).price
             size  == Unwrap(u.best_bid).size
             c     == ComplementOf(price)
         IN  IF u.is_up
             THEN LET d == [s EXCEPT !.up_bid_price = price,
                                     !.up_bid_size = s.up_bid_size \o size]
                  IN  IF IsSome(c)
                      THEN [d EXCEPT !.down_ask_price = Unwrap(c), !.down_ask_size = size]
                      ELSE d
             ELSE LET d == [s EXCEPT !.down_bid_price = price,
                                     !.down_bid_size = s.down_bid_size \o size]
                  IN  IF IsSome(c)
                      THEN [d EXCEPT !.up_ask_price = Unwrap(c), !.up_ask_size = size]
                      ELSE d

\* faulty variant: the derived ask of the other instrument is in turn used to
\* derive the bid of the instrument the frame is for
ApplyBidChained(s, u) ==
    IF ~IsSome(u.best_bid) THEN s
    ELSE LET price == Unwrap(u.best_bid).price
             size  == Unwrap(u.best_bid).size
             c     == ComplementOf(price)
             cc    == IF IsSome(c) THEN ParseComplement(Unwrap(c)) ELSE None
         IN  IF u.is_up
             THEN LET d == [s EXCEPT !.up_bid_price = price, !.up_bid_size = size]
                  IN  IF IsSome(c)
                      THEN [d EXCEPT !.down_ask_price = Unwrap(c), !.down_ask_size = size,
                                     !.up_bid_price = Unwrap(cc)]
                      ELSE d
             ELSE LET d == [s EXCEPT !.down_bid_price = price, !.down_bid_size = size]
                  IN  IF IsSome(c)
                      THEN [d EXCEPT !.up_ask_price = Unwrap(c), !.up_ask_size = size,
                                     !.down_bid_price = Unwrap(cc)]
                      ELSE d

\* orderbook.rs 208-216 (is_up) and 228-236 (else)
ApplyBid(s, u) ==
    IF ~IsSome(u.best_bid) THEN s
    ELSE LET price == Unwrap(u.best_bid).price
             size  == Unwrap(u.best_bid).size
             c     == ComplementOf(price)
         IN  IF u.is_up
             THEN LET d == [s EXCEPT !.up_bid_price = price, !.up_bid_size = size]
                  IN  IF IsSome(c)
                      THEN [d EXCEPT !.down_ask_price = Unwrap(c), !.down_ask_size = size]
                      ELSE d
             ELSE LET d == [s EXCEPT !.down_bid_price = price, !.down_bid_size = size]
                  IN  IF IsSome(c)
                      THEN [d EXCEPT !.up_ask_price = Unwrap(c), !.up_ask_size = size]
                      ELSE d

\* orderbook.rs 217-225 (is_up) and 237-245 (else)
ApplyAsk(s, u) ==
    IF ~IsSome(u.best_ask) THEN s
    ELSE LET price == Unwrap(u.best_ask).price
             size  == Unwrap(u.best_ask).size
             c     == ComplementOf(price)
         IN  IF u.is_up
             THEN LET d == [s EXCEPT !.up_ask_price = price, !.up_ask_size = size]
                  IN  IF IsSome(c)
                      THEN [d EXCEPT !.down_bid_price = Unwrap(c), !.down_bid_size = size]
                      ELSE d
             ELSE LET d == [s EXCEPT !.down_ask_price = price, !.down_ask_size = size]
                  IN  IF IsSome(c)
                      THEN [d EXCEPT !.up_bid_price = Unwrap(c), !.up_bid_size = size]
                      ELSE d

\* orderbook.rs 248
SetTimestamp(s, now_ms) == [s EXCEPT !.last_update_ms = now_ms]

(***************************************************************************)
(* The items the feed delivers (tokio_tungstenite's stream): a text frame, *)
(* a message that is no text frame (binary, ping, pong, close), an error.  *)
(***************************************************************************)
Text(doc) == [kind |-> "text", json |-> Some(doc)]

\* a text frame serde_json::from_str rejects
NotJson == [kind |-> "text", json |-> None]

Binary == [kind |-> "binary", json |-> None]

Level(price, size) == JLevel(Some(JStr(price)), Some(JStr(size)))

\* a level whose price is a number instead of a string
LevelNumPrice(size) == JLevel(Some(JNum), Some(JStr(size)))

Book(id, bids, asks) ==
    Text(JDoc(Some(JStr(id)), None, None, Some(JArr(bids)), Some(JArr(asks))))

\* the text frames the feed may deliver: updates of one or both sides, with
\* levels in ascending and in descending order, a price that is no number,
\* an unrelated instrument, frames nothing can be extracted from (empty
\* arrays; no arrays, the id under the key assetId; a last level without a
\* string price), a frame of which only the asks can be extracted, a frame
\* whose asset_id is no string, and a text that is no JSON
Frames ==
    { Book(TOKEN_UP, <<Level(S040, S100)>>, <<>>),
      Book(TOKEN_DOWN, <<Level(S0404, S7)>>, <<>>),
      Book(TOKEN_UP, <<Level(S030, S7), Level(S040, S7)>>,
                     <<Level(S055, S7), Level(S045, S100)>>),
      Book(TOKEN_DOWN, <<Level(S055, S7)>>, <<Level(SX, S100)>>),
      Book(TOKEN_UP, <<Level(SX, S7)>>, <<>>),
      Book(TOKEN_OTHER, <<Level(S040, S100)>>, <<Level(S045, S7)>>),
      Book(TOKEN_UP, <<>>, <<>>),
      Text(JDoc(None, Some(JStr(TOKEN_UP)), None, None, None)),
      Book(TOKEN_DOWN, <<Level(S040, S7), LevelNumPrice(S7)>>, <<>>),
      Book(TOKEN_UP, <<Level(S040, S100), LevelNumPrice(S7)>>, <<Level(S045, S100)>>),
      Text(JDoc(Some(JNum), Some(JStr(TOKEN_UP)), None,
                Some(JArr(<<Level(S040, S100)>>)), None)),
      NotJson }

\* the error item of the stream
ErrorItem == [kind |-> "error", json |-> None]

NoItem == [kind |-> "none", json |-> None]

Clock == 1..MaxClock

(***************************************************************************)
(* State.                                                                  *)
(*   sup        where run_websocket_loop is: "Connecting", "SubscribingUp",*)
(*              "SubscribingDown", "Select" (suspended in select!),        *)
(*              "WriteWait" (awaiting state.write()), "WriteBid",          *)
(*              "WriteAsk", "Release" (inside the critical                 *)
(*              section), "Publish" (process_message returned Some(true)), *)
(*              "Stopped" (the task returned)                              *)
(*   state      the OrderbookState behind the RwLock                       *)
(*   writer     the write guard is held                                    *)
(*   readers    read guards held                                           *)
(*   upd        process_message's locals: is_up, best_bid, best_ask, now_ms*)
(*   published  StateUpdated values sent on the broadcast channel          *)
(*   handle     the OrderbookHandle: "held", "shutdown" (shutdown() was    *)
(*              called, which consumes it), "dropped"                      *)
(*   stream     the inbound stream: "open", or "ended" once it has yielded *)
(*              an error or its end                                        *)
(*   nread      items the loop has taken from the stream                   *)
(*   sent       the subscription requests written to the socket            *)
(*   log        what the task has printed to stderr                        *)
(*   cons       where the consumer loop of main is: "recv", "read"         *)
(*              (awaiting state.read()), "clone" (holding the read guard), *)
(*              "print", "done"                                            *)
(*   next       signals the consumer's receiver has taken                  *)
(*   snap       the consumer's snapshot                                    *)
(*   exit       history: the statement the task returned at ("" while it   *)
(*              runs)                                                      *)
(*   ncommit    history: critical sections completed                       *)
(*   committed  history: the state when the write guard was last dropped   *)
(*   last       history: the item the loop took from the stream last       *)
(*   repeat     history: that item equals the one taken before it          *)
(***************************************************************************)
VARIABLES sup, state, writer, readers, upd, published, handle, stream, nread,
          sent, log, exit, cons, next, snap, ncommit, committed, last, repeat

vars == <<sup, state, writer, readers, upd, published, handle, stream, nread,
          sent, log, exit, cons, next, snap, ncommit, committed, last, repeat>>

NoUpdate == [is_up |-> FALSE, best_bid |-> None, best_ask |-> None, now_ms |-> 0]

\* spawn (orderbook.rs 62-79) and main up to its loop (main.rs 20-26)
Init ==
    /\ sup = "Connecting"
    /\ state = DefaultState
    /\ writer = FALSE
    /\ readers = 0
    /\ upd = NoUpdate
    /\ published = 0
    /\ handle = "held"
    /\ stream = "open"
    /\ nread = 0
    /\ sent = <<>>
    /\ log = <<>>
    /\ exit = ""
    /\ cons = "recv"
    /\ next = 0
    /\ snap = None
    /\ ncommit = 0
    /\ committed = DefaultState
    /\ last = NoItem
    /\ repeat = FALSE

Streaming == sup \in {"Select", "WriteWait", "WriteBid", "WriteAsk", "Release",
                      "Publish"}

\* faulty variant: the task starts over instead of ending
TaskReturnedRetry == "Connecting"

\* where the task is once run_websocket_loop has returned (orderbook.rs 92, 113,
\* 117, 147): the spawned future is complete and is never polled again
TaskReturned == "Stopped"

\* what the task hands back when it ends at exit e: run_websocket_loop returns
\* () on every path (orderbook.rs 92, 113, 117, 147), spawn drops the JoinHandle
\* (orderbook.rs 70-72) and the handle has no operation that reports an end
TaskOutput(e) == "()"

(***************************************************************************)
(* run_websocket_loop before the loop (orderbook.rs 87-118).               *)
(***************************************************************************)
ConnectOk ==
    /\ sup = "Connecting"
    /\ sup' = "SubscribingUp"
    /\ UNCHANGED <<state, writer, readers, upd, published, handle, stream, nread,
                   sent, log, exit, cons, next, snap, ncommit, committed, last, repeat>>

ConnectErr ==
    /\ sup = "Connecting"
    /\ log' = Append(log, "WS connect error")
    /\ exit' = "connect"
    /\ sup' = TaskReturned
    /\ UNCHANGED <<state, writer, readers, upd, published, handle, stream, nread,
                   sent, cons, next, snap, ncommit, committed, last, repeat>>

SendUpOk ==
    /\ sup = "SubscribingUp"
    /\ sent' = Append(sent, config.token_up)
    /\ sup' = "SubscribingDown"
    /\ UNCHANGED <<state, writer, readers, upd, published, handle, stream, nread,
                   log, exit, cons, next, snap, ncommit, committed, last, repeat>>

\* faulty variant: the error of the first subscription is reported but the function
\* does not return
SendUpErrNoReturn ==
    /\ sup = "SubscribingUp"
    /\ log' = Append(log, "Fejl ved subscribe UP")
    /\ sup' = "SubscribingDown"
    /\ UNCHANGED <<state, writer, readers, upd, published, handle, stream, nread,
                   sent, exit, cons, next, snap, ncommit, committed, last, repeat>>

SendUpErr ==
    /\ sup = "SubscribingUp"
    /\ log' = Append(log, "Fejl ved subscribe UP")
    /\ exit' = "subscribe_up"
    /\ sup' = TaskReturned
    /\ UNCHANGED <<state, writer, readers, upd, published, handle, stream, nread,
                   sent, cons, next, snap, ncommit, committed, last, repeat>>

SendDownOk ==
    /\ sup = "SubscribingDown"
    /\ sent' = Append(sent, config.token_down)
    /\ sup' = "Select"
    /\ UNCHANGED <<state, writer, readers, upd, published, handle, stream, nread,
                   log, exit, cons, next, snap, ncommit, committed, last, repeat>>

SendDownErr ==
    /\ sup = "SubscribingDown"
    /\ log' = Append(log, "Fejl ved subscribe DOWN")
    /\ exit' = "subscribe_down"
    /\ sup' = TaskReturned
    /\ UNCHANGED <<state, writer, readers, upd, published, handle, stream, nread,
                   sent, cons, next, snap, ncommit, committed, last, repeat>>

(***************************************************************************)
(* The event loop (orderbook.rs 122-145) and process_message's critical    *)
(* section (orderbook.rs 203-249).                                         *)
(***************************************************************************)
\* faulty variant: the signal is sent before the state is written
NextStepSignalFirst(at) ==
    IF at = "Interpret" THEN "Publish"
    ELSE IF at = "Publish" THEN "WriteWait"
    ELSE "Select"

\* the order of the steps that follow an interpreted update: process_message
\* takes the write guard, writes, drops the guard and returns Some(true)
\* (orderbook.rs 200-251); only then does the loop send (orderbook.rs 137-142)
NextStep(at) ==
    IF at = "Interpret" THEN "WriteWait"
    ELSE IF at = "Release" THEN "Publish"
    ELSE "Select"

\* RwLock: a write guard is granted when no guard is held
WriteGranted == ~writer /\ readers = 0

\* faulty variant: the state is read without regard to the write guard
ReadGrantedUnlocked == TRUE

\* RwLock: a read guard is granted when no write guard is held
ReadGranted == ~writer

\* what the stream yields next: a frame of Frames, a message that is no text, an error
StreamItems == Frames \cup {Binary, ErrorItem}

\* faulty variant: the shutdown branch is taken only for a value that was sent,
\* not when the sender is dropped
SelectShutdownSentOnly ==
    /\ sup = "Select"
    /\ handle = "shutdown"
    /\ exit' = "shutdown"
    /\ sup' = TaskReturned
    /\ UNCHANGED <<state, writer, readers, upd, published, handle, stream, nread,
                   sent, log, cons, next, snap, ncommit, committed, last, repeat>>

\* select! takes the shutdown branch: the oneshot receiver resolves when the
\* sender has sent or is dropped (orderbook.rs 125-127)
SelectShutdown ==
    /\ sup = "Select"
    /\ handle \in {"shutdown", "dropped"}
    /\ exit' = "shutdown"
    /\ sup' = TaskReturned
    /\ UNCHANGED <<state, writer, readers, upd, published, handle, stream, nread,
                   sent, log, cons, next, snap, ncommit, committed, last, repeat>>

\* faulty variant: the end of the stream is skipped like an error item
ReadNoneContinue ==
    /\ sup = "Select"
    /\ stream' = "ended"
    /\ sup' = "Select"
    /\ UNCHANGED <<state, writer, readers, upd, published, handle, nread, sent,
                   log, exit, cons, next, snap, ncommit, committed, last, repeat>>

\* select! takes the read branch and the stream has ended (orderbook.rs 130-133)
ReadNone ==
    /\ sup = "Select"
    /\ stream' = "ended"
    /\ exit' = "stream_end"
    /\ sup' = TaskReturned
    /\ UNCHANGED <<state, writer, readers, upd, published, handle, nread,
                   sent, log, cons, next, snap, ncommit, committed, last, repeat>>

\* faulty variant: a text that process_message cannot decode (its None) ends
\* the loop
ReadFrameFatalDecode(item, now_ms) ==
    /\ sup = "Select"
    /\ stream = "open"
    /\ nread < MaxFrames
    /\ nread' = nread + 1
    /\ last' = item
    /\ repeat' = (item = last)
    /\ stream' = IF item.kind = "error" THEN "ended" ELSE "open"
    /\ LET r == Interpret(item)
       IN  IF item.kind = "text" /\ r.ret = "Update"
           THEN /\ upd' = [is_up |-> r.is_up, best_bid |-> r.best_bid,
                           best_ask |-> r.best_ask, now_ms |-> now_ms]
                /\ sup' = NextStep("Interpret")
                /\ exit' = exit
           ELSE IF item.kind = "text" /\ r.ret = "None"
           THEN /\ upd' = upd
                /\ sup' = TaskReturned
                /\ exit' = "decode"
           ELSE /\ upd' = upd
                /\ sup' = "Select"
                /\ exit' = exit
    /\ UNCHANGED <<state, writer, readers, published, handle, sent, log,
                   cons, next, snap, ncommit, committed>>

\* select! takes the read branch and the stream yields an item (orderbook.rs
\* 130-137 and process_message up to line 200).  An error item and a message
\* that is no text are skipped (line 135); the stream is fused by an error.
ReadFrame(item, now_ms) ==
    /\ sup = "Select"
    /\ stream = "open"
    /\ nread < MaxFrames
    /\ nread' = nread + 1
    /\ last' = item
    /\ repeat' = (item = last)
    /\ stream' = IF item.kind = "error" THEN "ended" ELSE "open"
    /\ LET r == Interpret(item)
       IN  IF item.kind = "text" /\ r.ret = "Update"
           THEN /\ upd' = [is_up |-> r.is_up, best_bid |-> r.best_bid,
                           best_ask |-> r.best_ask, now_ms |-> now_ms]
                /\ sup' = NextStep("Interpret")
           ELSE /\ upd' = upd
                /\ sup' = "Select"
    /\ UNCHANGED <<state, writer, readers, published, handle, sent, log, exit,
                   cons, next, snap, ncommit, committed>>

\* state.write().await (orderbook.rs 204)
AcquireWrite ==
    /\ sup = "WriteWait"
    /\ WriteGranted
    /\ writer' = TRUE
    /\ sup' = "WriteBid"
    /\ UNCHANGED <<state, readers, upd, published, handle, stream, nread, sent,
                   log, exit, cons, next, snap, ncommit, committed, last, repeat>>

\* orderbook.rs 208-216, 228-236
WriteBid ==
    /\ sup = "WriteBid"
    /\ state' = ApplyBid(state, upd)
    /\ sup' = "WriteAsk"
    /\ UNCHANGED <<writer, readers, upd, published, handle, stream, nread, sent,
                   log, exit, cons, next, snap, ncommit, committed, last, repeat>>

\* orderbook.rs 217-225, 237-245
WriteAsk ==
    /\ sup = "WriteAsk"
    /\ state' = ApplyAsk(state, upd)
    /\ sup' = "Release"
    /\ UNCHANGED <<writer, readers, upd, published, handle, stream, nread, sent,
                   log, exit, cons, next, snap, ncommit, committed, last, repeat>>

\* faulty variant: process_message returns with the write guard still held
ReleaseKeepGuard ==
    /\ sup = "Release"
    /\ state' = SetTimestamp(state, upd.now_ms)
    /\ upd' = NoUpdate
    /\ committed' = state'
    /\ ncommit' = ncommit + 1
    /\ sup' = NextStep("Release")
    /\ UNCHANGED <<writer, readers, published, handle, stream, nread, sent, log,
                   exit, cons, next, snap, last, repeat>>

\* orderbook.rs 248-251: the timestamp, the guard dropped, Some(true) returned
Release ==
    /\ sup = "Release"
    /\ state' = SetTimestamp(state, upd.now_ms)
    /\ writer' = FALSE
    /\ upd' = NoUpdate
    /\ committed' = state'
    /\ ncommit' = ncommit + 1
    /\ sup' = NextStep("Release")
    /\ UNCHANGED <<readers, published, handle, stream, nread, sent, log, exit,
                   cons, next, snap, last, repeat>>

\* update_tx.send(StateUpdated), its result ignored (orderbook.rs 138-141)
Publish ==
    /\ sup = "Publish"
    /\ published' = published + 1
    /\ sup' = NextStep("Publish")
    /\ UNCHANGED <<state, writer, readers, upd, handle, stream, nread, sent, log,
                   exit, cons, next, snap, ncommit, committed, last, repeat>>

(***************************************************************************)
(* The caller: the handle (orderbook.rs 44-59) and main's loop (main.rs    *)
(* 28-51).                                                                 *)
(***************************************************************************)
\* faulty variant: the channel closes as soon as the task has ended, as if the
\* handle held no sender
ChannelClosedOnStop == sup = "Stopped"

\* every broadcast::Sender is gone: the task's clone and the handle's
ChannelClosed == sup = "Stopped" /\ handle # "held"

\* OrderbookHandle::shutdown (orderbook.rs 56-58); it takes the handle by value
Shutdown ==
    /\ handle = "held"
    /\ cons = "recv"
    /\ handle' = "shutdown"
    /\ UNCHANGED <<sup, state, writer, readers, upd, published, stream, nread,
                   sent, log, exit, cons, next, snap, ncommit, committed, last, repeat>>

\* the handle goes out of scope without shutdown() (orderbook.rs 38-42)
DropHandle ==
    /\ handle = "held"
    /\ cons = "recv"
    /\ handle' = "dropped"
    /\ UNCHANGED <<sup, state, writer, readers, upd, published, stream, nread,
                   sent, log, exit, cons, next, snap, ncommit, committed, last, repeat>>

\* broadcast::channel(64) keeps the newest Capacity signals (orderbook.rs 64):
\* a receiver further behind has lost the oldest ones
Lagged == published - next > Capacity

\* updates.recv().await returns Ok (main.rs 29-30); without the handle there
\* is no state to read and the receiver is simply polled again
RecvOk ==
    /\ cons = "recv"
    /\ next < published
    /\ ~Lagged
    /\ next' = next + 1
    /\ cons' = IF handle = "held" THEN "read" ELSE "recv"
    /\ UNCHANGED <<sup, state, writer, readers, upd, published, handle, stream,
                   nread, sent, log, exit, snap, ncommit, committed, last, repeat>>

\* updates.recv().await returns Err(Lagged(n)), the receiver's cursor set to
\* the oldest signal kept; main takes every Err as the end (main.rs 49),
\* leaves its loop and drops the handle
RecvLagged ==
    /\ cons = "recv"
    /\ Lagged
    /\ next' = published - Capacity
    /\ cons' = "done"
    /\ handle' = IF handle = "held" THEN "dropped" ELSE handle
    /\ UNCHANGED <<sup, state, writer, readers, upd, published, stream, nread,
                   sent, log, exit, snap, ncommit, committed, last, repeat>>

\* updates.recv().await returns Err(Closed) (main.rs 49)
RecvClosed ==
    /\ cons = "recv"
    /\ next = published
    /\ ChannelClosed
    /\ cons' = "done"
    /\ UNCHANGED <<sup, state, writer, readers, upd, published, handle, stream,
                   nread, sent, log, exit, next, snap, ncommit, committed, last, repeat>>

\* get_current_state: self.state.read().await (orderbook.rs 47)
AcquireRead ==
    /\ cons = "read"
    /\ ReadGranted
    /\ readers' = readers + 1
    /\ cons' = "clone"
    /\ UNCHANGED <<sup, state, writer, upd, published, handle, stream, nread,
                   sent, log, exit, next, snap, ncommit, committed, last, repeat>>

\* get_current_state: .clone(), the read guard dropped (orderbook.rs 47)
CloneState ==
    /\ cons = "clone"
    /\ snap' = Some(state)
    /\ readers' = readers - 1
    /\ cons' = "print"
    /\ UNCHANGED <<sup, state, writer, upd, published, handle, stream, nread,
                   sent, log, exit, next, ncommit, committed, last, repeat>>

\* main.rs 32-47 with ttl > 0: the snapshot is printed and the loop goes on
PrintState ==
    /\ cons = "print"
    /\ snap' = None
    /\ cons' = "recv"
    /\ UNCHANGED <<sup, state, writer, readers, upd, published, handle, stream,
                   nread, sent, log, exit, next, ncommit, committed, last, repeat>>

\* main.rs 44-47 with ttl <= 0: main leaves its loop and drops the handle
PrintExpired ==
    /\ cons = "print"
    /\ snap' = None
    /\ cons' = "done"
    /\ handle' = "dropped"
    /\ UNCHANGED <<sup, state, writer, readers, upd, published, stream, nread,
                   sent, log, exit, next, ncommit, committed, last, repeat>>

TaskStep ==
    \/ SelectShutdown
    \/ AcquireWrite
    \/ WriteBid
    \/ WriteAsk
    \/ Release
    \/ Publish

FeedStep ==
    \/ ConnectOk
    \/ ConnectErr
    \/ SendUpOk
    \/ SendUpErr
    \/ SendDownOk
    \/ SendDownErr
    \/ ReadNone
    \/ \E item \in StreamItems, now_ms \in Clock : ReadFrame(item, now_ms)

CallerStep ==
    \/ Shutdown
    \/ DropHandle
    \/ RecvOk
    \/ RecvLagged
    \/ RecvClosed
    \/ AcquireRead
    \/ CloneState
    \/ PrintState
    \/ PrintExpired

Next == TaskStep \/ FeedStep \/ CallerStep

Spec == Init /\ [][Next]_vars

(***************************************************************************)
(* Fairness.  The runtime polls a task that can run: a step of the task    *)
(* that waits for nothing outside the program is eventually taken, as is   *)
(* the poll of a stream that has ended; select! picks among its ready      *)
(* branches at random, so that a shutdown branch that is ready at every    *)
(* select is eventually taken.  tokio's RwLock is fair: a reader           *)
(* that waits is granted the lock once the guards held before it are       *)
(* dropped, however often the writer comes back, and it drops its guard.   *)
(* The feed owes nothing: a connection attempt, a send or the next frame   *)
(* may stay pending for ever (no timeout is set, orderbook.rs 88-130).     *)
(***************************************************************************)
FairSpec ==
    /\ Spec
    /\ WF_vars(TaskStep)
    /\ SF_vars(SelectShutdown)
    /\ WF_vars(stream = "ended" /\ ReadNone)
    /\ SF_vars(AcquireRead)
    /\ WF_vars(CloneState)

(***************************************************************************)
(* Properties.                                                             *)
(***************************************************************************)
\* the consumer's get_current_state returns
CloneStep == cons = "clone" /\ cons' = "print"

\* C1: an Applied frame's mutation is committed, and the write guard dropped,
\* before its signal is sent: when the k-th signal is sent the k-th critical
\* section is complete, and a consumer that has received the k-th signal and
\* then reads gets the committed state of the k-th or a later mutation.
C1_CommitBeforeSignal ==
    [][ /\ published' # published =>
              ~writer /\ ~writer' /\ ncommit >= published'
        /\ CloneStep => ncommit >= next /\ snap' = Some(committed) ]_vars

\* a consumer holds a snapshot read after its first signal, which already
\* carries a later mutation
C1_Witness ==
    /\ cons = "print"
    /\ next = 1
    /\ ncommit > next
    /\ snap = Some(committed)

\* a text frame whose asset id is a string other than the two tokens
Unrelated(item) ==
    /\ item.kind = "text"
    /\ IsSome(item.json)
    /\ IsSome(AssetId(Unwrap(item.json)))
    /\ Unwrap(AssetId(Unwrap(item.json))) \notin {config.token_up, config.token_down}

\* C2: a frame whose asset id is neither token changes no field of the state
\* (last_update_ms included), takes no guard and sends no signal: the loop is
\* back in its select with nothing left to do for the frame.
C2_UnrelatedFrameIgnored ==
    [][ nread' = nread + 1 /\ Unrelated(last') =>
            /\ state' = state
            /\ published' = published
            /\ upd' = upd
            /\ ~writer'
            /\ sup' = "Select" ]_vars

\* an unrelated frame was the last one read, after a frame that changed the state
C2_Witness ==
    /\ Unrelated(last)
    /\ nread >= 2
    /\ state # DefaultState
    /\ sup = "Select"

\* an update with a best bid of numeric price and no best ask
BidOnlyNumeric(u) ==
    /\ IsSome(u.best_bid)
    /\ ~IsSome(u.best_ask)
    /\ IsSome(ParseF64(Unwrap(u.best_bid).price))

\* s is a decimal with two fraction digits, the hundredth nearest to 1 - p/1000
IsComplementOf(s, p) ==
    LET d == ParseF64(s)
    IN  /\ Len(s) >= 4
        /\ s[Len(s) - 2] = "."
        /\ IsSome(d)
        /\ Unwrap(d) - (1000 - p) \in -5..5

\* C3: a bid-only update of numeric price on instrument X sets X's bid to the
\* update's price and size, the other instrument's ask to 1 - price rounded to
\* two decimals and the update's size, and leaves X's ask and the other
\* instrument's bid as they were before the frame.
C3_BidOnlyUpdate ==
    [][ ncommit' = ncommit + 1 /\ BidOnlyNumeric(upd) =>
            LET price == Unwrap(upd.best_bid).price
                size  == Unwrap(upd.best_bid).size
                p     == Unwrap(ParseF64(price))
            IN  IF upd.is_up
                THEN /\ state'.up_bid_price = price
                     /\ state'.up_bid_size = size
                     /\ IsComplementOf(state'.down_ask_price, p)
                     /\ state'.down_ask_size = size
                     /\ state'.up_ask_price = committed.up_ask_price
                     /\ state'.up_ask_size = committed.up_ask_size
                     /\ state'.down_bid_price = committed.down_bid_price
                     /\ state'.down_bid_size = committed.down_bid_size
                ELSE /\ state'.down_bid_price = price
                     /\ state'.down_bid_size = size
                     /\ IsComplementOf(state'.up_ask_price, p)
                     /\ state'.up_ask_size = size
                     /\ state'.down_ask_price = committed.down_ask_price
                     /\ state'.down_ask_size = committed.down_ask_size
                     /\ state'.up_bid_price = committed.up_bid_price
                     /\ state'.up_bid_size = committed.up_bid_size ]_vars

\* a bid-only Down frame has just been applied to a state whose other fields
\* earlier frames had set
C3_Witness ==
    /\ sup = "Publish"
    /\ ncommit >= 2
    /\ LET r == Interpret(last)
       IN  r.ret = "Update" /\ ~r.is_up /\ IsSome(r.best_bid) /\ ~IsSome(r.best_ask)
    /\ state.down_ask_price # <<>>
    /\ state.up_bid_price # <<>>
    /\ state.up_ask_price = <<"0", ".", "6", "0">>

\* C4: once shutdown is requested while the loop is suspended in its select,
\* the loop takes no further frame from the stream.
C4_NoFrameAfterShutdown ==
    [][ handle = "shutdown" /\ sup = "Select" =>
            nread' = nread /\ sup' \in {"Select", "Stopped"} ]_vars

\* C5: once shutdown() has been requested the supervisor eventually reaches
\* Stopped, from whichever state it is in.
C5_ShutdownStops == (handle = "shutdown") ~> (sup = "Stopped")

\* C6: every exit leaves the supervisor Stopped, and from Stopped no step
\* changes the state, sends a signal or leaves Stopped.
C6_StoppedIsTerminal ==
    /\ [](exit # "" => sup = "Stopped")
    /\ [][ sup = "Stopped" =>
               /\ sup' = "Stopped"
               /\ exit' = exit
               /\ state' = state
               /\ published' = published ]_vars

\* the loop has stopped at the end of the stream after signals, while the
\* consumer is still at work on a snapshot
C6_Witness ==
    /\ sup = "Stopped"
    /\ exit = "stream_end"
    /\ published >= 1
    /\ cons = "print"

\* C7: while a reader holds its guard no critical section is open and the
\* state is the one the last whole frame left, and the snapshot is a copy of
\* that state: a reader never sees part of a frame's writes.
C7_SnapshotConsistent ==
    /\ [](readers > 0 => ~writer /\ state = committed)
    /\ [][ CloneStep => snap' = Some(state) /\ state = committed ]_vars

\* a reader holds its guard while the loop waits to write the next frame
C7_Witness ==
    /\ cons = "clone"
    /\ sup = "WriteWait"
    /\ state # DefaultState

FatalExits == {"connect", "subscribe_up", "subscribe_down"}

\* C9: a failed connect or subscription send ends the task at once: nothing
\* was read, written or signalled, one error is reported, Streaming was never
\* entered; and the loop runs only after both subscriptions were sent, Up first.
C9_FatalBeforeStreaming ==
    /\ exit \in FatalExits =>
           /\ sup = "Stopped"
           /\ nread = 0
           /\ last = NoItem
           /\ state = DefaultState
           /\ published = 0
           /\ Len(log) = 1
           /\ sent = IF exit = "subscribe_down" THEN <<config.token_up>> ELSE <<>>
    /\ Streaming => sent = <<config.token_up, config.token_down>> /\ log = <<>>
    /\ log # <<>> => exit \in FatalExits

\* the second subscription failed after the first was sent
C9_Witness ==
    /\ exit = "subscribe_down"
    /\ sup = "Stopped"
    /\ sent = <<config.token_up>>

\* what the layer's interface shows of a run: the task's result, the state
\* get_current_state returns, the signals a subscriber can have received and
\* whether the channel reports that it is closed (orderbook.rs 44-58)
Outcome == <<TaskOutput(exit), state, published, ChannelClosed>>

\* the outcome of a run that shutdown() ended before the first frame
ShutdownOutcome == <<TaskOutput("shutdown"), DefaultState, 0, TRUE>>

\* C10: what the layer's interface shows of a run that ended in a fatal
\* connection failure differs from what it shows of a run ended by shutdown.
C10_FailureDistinguishable == exit \in FatalExits => Outcome # ShutdownOutcome

\* the eight price and size fields of a state
PriceSize(s) == [s EXCEPT !.last_update_ms = 0]

\* C11: when the frame just applied is the same as the frame taken before it,
\* the eight price and size fields are what the first application left; only
\* last_update_ms may differ.
C11_Idempotent ==
    [][ ncommit' = ncommit + 1 /\ repeat =>
            PriceSize(state') = PriceSize(committed) ]_vars

\* a frame of both sides has been applied twice in a row at two clock readings,
\* the consumer holding a snapshot of the first application
C11_Witness ==
    /\ repeat
    /\ sup = "Publish"
    /\ ncommit = 2
    /\ IsSome(Interpret(last).best_bid) /\ IsSome(Interpret(last).best_ask)
    /\ IsSome(snap)
    /\ PriceSize(Unwrap(snap)) = PriceSize(state)
    /\ Unwrap(snap).last_update_ms # state.last_update_ms

\* a level with a string price and a string size
HasStrings(v) ==
    /\ v.t = "obj"
    /\ IsSome(v.price) /\ Unwrap(v.price).t = "str"
    /\ IsSome(v.size) /\ Unwrap(v.size).t = "str"

\* a side of a document that gives no best level: the key is absent, its value
\* is no array, the array is empty or its last entry lacks a string
NoBest(field) ==
    \/ ~IsSome(field)
    \/ Unwrap(field).t # "arr"
    \/ Unwrap(field).a = <<>>
    \/ ~HasStrings(Unwrap(field).a[Len(Unwrap(field).a)])

\* a text frame for one of the two tokens
Configured(item) ==
    /\ item.kind = "text"
    /\ IsSome(item.json)
    /\ IsSome(AssetId(Unwrap(item.json)))
    /\ Unwrap(AssetId(Unwrap(item.json))) \in {config.token_up, config.token_down}

\* C12: a frame for a configured instrument that gives neither a best bid nor
\* a best ask changes no field of the state (last_update_ms included), takes
\* no guard and sends no signal.
C12_NoChange ==
    [][ ( /\ nread' = nread + 1
          /\ Configured(last')
          /\ NoBest(Unwrap(last'.json).bids)
          /\ NoBest(Unwrap(last'.json).asks) ) =>
            /\ state' = state
            /\ published' = published
            /\ upd' = upd
            /\ ~writer'
            /\ sup' = "Select" ]_vars

\* after an applied frame, a frame whose bids end in a level without a string
\* price, and which has no asks, was read and the loop is back in its select
C12_Witness ==
    /\ Configured(last)
    /\ Len(Levels(Unwrap(last.json).bids)) = 2
    /\ NoBest(Unwrap(last.json).bids)
    /\ NoBest(Unwrap(last.json).asks)
    /\ nread = 2
    /\ state.last_update_ms > 0
    /\ published = 1
    /\ sup = "Select"

\* the best level of a side is there and its price is no number
NonNumeric(side) == IsSome(side) /\ ~IsSome(ParseF64(Unwrap(side).price))

\* C13: an update whose best price is no number is applied all the same: the
\* direct price and size of that side are written, the critical section is
\* completed and the signal is due, and only the derived price and size that
\* side gives the other instrument stay as they were.
C13_NonNumericPrice ==
    [][ ncommit' = ncommit + 1 =>
            /\ sup' = "Publish"
            /\ NonNumeric(upd.best_bid) =>
                   IF upd.is_up
                   THEN /\ state'.up_bid_price = Unwrap(upd.best_bid).price
                        /\ state'.up_bid_size = Unwrap(upd.best_bid).size
                        /\ state'.down_ask_price = committed.down_ask_price
                        /\ state'.down_ask_size = committed.down_ask_size
                   ELSE /\ state'.down_bid_price = Unwrap(upd.best_bid).price
                        /\ state'.down_bid_size = Unwrap(upd.best_bid).size
                        /\ state'.up_ask_price = committed.up_ask_price
                        /\ state'.up_ask_size = committed.up_ask_size
            /\ NonNumeric(upd.best_ask) =>
                   IF upd.is_up
                   THEN /\ state'.up_ask_price = Unwrap(upd.best_ask).price
                        /\ state'.up_ask_size = Unwrap(upd.best_ask).size
                        /\ state'.down_bid_price = committed.down_bid_price
                        /\ state'.down_bid_size = committed.down_bid_size
                   ELSE /\ state'.down_ask_price = Unwrap(upd.best_ask).price
                        /\ state'.down_ask_size = Unwrap(upd.best_ask).size
                        /\ state'.up_bid_price = committed.up_bid_price
                        /\ state'.up_bid_size = committed.up_bid_size ]_vars

\* an Up bid of price "x" has been applied to a state whose Down ask an
\* earlier frame had derived; the Down ask is still the derived one
C13_Witness ==
    /\ sup = "Publish"
    /\ ncommit = 2
    /\ state.up_bid_price = SX
    /\ state.down_ask_price = <<"0", ".", "6", "0">>
    /\ state.down_ask_size = S100
    /\ state.last_update_ms = MaxClock

\* C14: a consumer that has fallen behind the channel's buffer is not ended
\* by it: the only effect is that the oldest signals are lost, and the
\* consumer goes on receiving.
C14_LaggingConsumerContinues ==
    [][ cons = "recv" /\ Lagged => cons' # "done" ]_vars

\* C15: a write guard is held only inside the critical section of one frame,
\* never in Connecting, Subscribing or Stopped nor while the loop waits in its
\* select, and a call of get_current_state that waits for the read guard gets
\* it and returns its snapshot.
C15_ReadReturns ==
    /\ [](writer <=> sup \in {"WriteBid", "WriteAsk", "Release"})
    /\ (cons = "read") ~> (cons = "print")

\* a reader waits for the guard while the loop is inside its critical section
C15_Witness ==
    /\ cons = "read"
    /\ writer
    /\ sup = "WriteAsk"

\* the loop is at work on a frame it has taken
Handling == sup \in {"WriteWait", "WriteBid", "WriteAsk", "Release", "Publish"}

\* C16: whatever a text frame holds, taking it leaves the loop Streaming; the
\* task ends only from its select, by shutdown or the end of the stream,
\* never while it is at work on a frame; and the work on a frame ends with
\* the loop back in its select.
C16_InterpreterNeverStops ==
    /\ [][ nread' = nread + 1 /\ last'.kind = "text" =>
               sup' \in {"Select", "WriteWait"} /\ exit' = "" ]_vars
    /\ [][ Handling => sup' # "Stopped" /\ exit' = "" ]_vars
    /\ [][ Streaming /\ sup' = "Stopped" => exit' \in {"shutdown", "stream_end"} ]_vars
    /\ Handling ~> (sup = "Select")

\* after an applied frame the loop took a frame it cannot decode (its asset_id
\* is no string) and is back in its select
C16_Witness ==
    /\ last.kind = "text"
    /\ IsSome(last.json)
    /\ Interpret(last).ret = "None"
    /\ nread = 2
    /\ published = 1
    /\ sup = "Select"
    /\ exit = ""

\* what one side of an update may write: the direct price and size dp, ds are
\* the raw strings; the derived price and size op, os of the other instrument
\* are 1 - the raw price and the raw size, or are left as they were (old_op,
\* old_os) when the price is no number.  A side that is not there writes
\* nothing.
SideWritten(side, dp, ds, op, os, old_dp, old_ds, old_op, old_os) ==
    IF IsSome(side)
    THEN LET p == ParseF64(Unwrap(side).price)
         IN  /\ dp = Unwrap(side).price
             /\ ds = Unwrap(side).size
             /\ IF IsSome(p)
                THEN IsComplementOf(op, Unwrap(p)) /\ os = Unwrap(side).size
                ELSE op = old_op /\ os = old_os
    ELSE dp = old_dp /\ ds = old_ds /\ op = old_op /\ os = old_os

\* C17: every field a frame writes holds the frame's raw price or size, or
\* 1 - the frame's raw price; the direct fields are never overwritten by a
\* value derived back from the derived ones, and nothing is computed from
\* what the state held.
C17_NoDerivationChains ==
    [][ ncommit' = ncommit + 1 =>
            IF upd.is_up
            THEN /\ SideWritten(upd.best_bid,
                       state'.up_bid_price, state'.up_bid_size,
                       state'.down_ask_price, state'.down_ask_size,
                       committed.up_bid_price, committed.up_bid_size,
                       committed.down_ask_price, committed.down_ask_size)
                 /\ SideWritten(upd.best_ask,
                       state'.up_ask_price, state'.up_ask_size,
                       state'.down_bid_price, state'.down_bid_size,
                       committed.up_ask_price, committed.up_ask_size,
                       committed.down_bid_price, committed.down_bid_size)
            ELSE /\ SideWritten(upd.best_bid,
                       state'.down_bid_price, state'.down_bid_size,
                       state'.up_ask_price, state'.up_ask_size,
                       committed.down_bid_price, committed.down_bid_size,
                       committed.up_ask_price, committed.up_ask_size)
                 /\ SideWritten(upd.best_ask,
                       state'.down_ask_price, state'.down_ask_size,
                       state'.up_bid_price, state'.up_bid_size,
                       committed.down_ask_price, committed.down_ask_size,
                       committed.up_bid_price, committed.up_bid_size) ]_vars

\* a Down bid of 0.404 was applied after an Up frame: the Up ask derived from
\* it is "0.60", and the Down bid is still the raw "0.404", not the "0.40" a
\* second derivation would give
C17_Witness ==
    /\ sup = "Publish"
    /\ ncommit = 2
    /\ state.down_bid_price = S0404
    /\ state.up_ask_price = <<"0", ".", "6", "0">>
    /\ state.up_bid_price = S040
    /\ state.down_ask_price = <<"0", ".", "6", "0">>

\* the last entry of the array under a key of a document
LastLevel(field) == Unwrap(field).a[Len(Unwrap(field).a)]

\* the price and size of a level, as strings
LevelStrings(v) == <<Unwrap(v.price).s, Unwrap(v.size).s>>

\* the bid (the ask) price and size of the instrument an update is for
DirectBid(s, is_up) ==
    IF is_up THEN <<s.up_bid_price, s.up_bid_size>>
    ELSE <<s.down_bid_price, s.down_bid_size>>

DirectAsk(s, is_up) ==
    IF is_up THEN <<s.up_ask_price, s.up_ask_size>>
    ELSE <<s.down_ask_price, s.down_ask_size>>

\* C18: an applied frame sets the instrument's bid to the last entry of its
\* bids array and its ask to the last entry of its asks array, in whatever
\* order the levels come; a side whose last entry lacks a string price or
\* size is not written, whatever its earlier entries hold, while the other
\* side is.
C18_LastLevelIsBest ==
    [][ ncommit' = ncommit + 1 =>
            LET data == Unwrap(last.json)
            IN  /\ DirectBid(state', upd.is_up) =
                       IF NoBest(data.bids) THEN DirectBid(committed, upd.is_up)
                       ELSE LevelStrings(LastLevel(data.bids))
                /\ DirectAsk(state', upd.is_up) =
                       IF NoBest(data.asks) THEN DirectAsk(committed, upd.is_up)
                       ELSE LevelStrings(LastLevel(data.asks)) ]_vars

\* after an Up frame whose bids ascend and whose asks descend, an Up frame was
\* applied whose bids end in a level without a string price: the ask is the
\* last ask of each frame, the bid is still the last bid of the first frame
C18_Witness ==
    /\ sup = "Publish"
    /\ ncommit = 2
    /\ NoBest(Unwrap(last.json).bids)
    /\ Len(Unwrap(Unwrap(last.json).bids).a) = 2
    /\ ~NoBest(Unwrap(last.json).asks)
    /\ state.up_ask_price = S045 /\ state.up_ask_size = S100
    /\ state.up_bid_price = S040 /\ state.up_bid_size = S7

C20_ClosureOnlyThroughHandle ==
    /\ [][ cons = "recv" /\ cons' = "done" /\ ~Lagged =>
               sup = "Stopped" /\ handle # "held" ]_vars
    /\ [][ sup = "Stopped" /\ handle = "held" /\ cons = "recv" /\ next = published =>
               cons' = "recv" /\ next' = next ]_vars

\* the stream has ended after a signal the consumer has handled; the handle is
\* held and the consumer awaits a signal that cannot come
C20_Witness ==
    /\ sup = "Stopped"
    /\ exit = "stream_end"
    /\ handle = "held"
    /\ cons = "recv"
    /\ published = 1
    /\ next = published

=============================================================================
